---- MODULE Spec2Model ----
(***************************************************************************)
(* Model of src/reg/value.rs of rust-aluvm: the register value `Value`     *)
(* (a length-tagged 1024-byte buffer), its constructors, in-place writes,  *)
(* equality, hashing, array / native-integer conversions, text parsing and *)
(* display, and the `Step` display wrapper.                                *)
(*                                                                         *)
(* One Value lives in `val`.  A run constructs it, writes to it in place a *)
(* bounded number of times and calls the read-only operations on it; the   *)
(* outcome of the last call is kept in `out` until the caller drops it.    *)
(* Text is a sequence of one-character strings, a byte is 0..255, a byte   *)
(* array or slice is a sequence of bytes, the buffer is a function on      *)
(* 0..Cap-1 as in the source.                                              *)
(***************************************************************************)
EXTENDS Integers, Sequences, FiniteSets, TLC

VARIABLES
    pc,      \* "new" | "live" | "called" | "eq" | "aborted"
    val,     \* the Value: [len, bytes]
    ctor,    \* how val was constructed: [op, n, p, ty, text] and its len then
    direct,  \* a public field (len / bytes) was assigned directly since construction
    nwrites, \* in-place writes since construction
    out,     \* outcome of the last call
    eq       \* the running equality call: [depth, a, b, a0, b0, result]

vars == <<pc, val, ctor, direct, nwrites, out, eq>>

----------------------------------------------------------------------------
(* Program constants and model bounds *)

\* [u8; 1024]
Cap == 1024

\* number of byte fill patterns the inputs are drawn from
MaxPattern == 1

\* in-place writes explored after a construction
MaxWrites == 1

\* frames the stack holds before a further call overflows it
StackFrames == 2

\* impl_value_bytes_conv!(1) .. impl_value_bytes_conv!(1024)
Widths == {1, 2, 4, 8, 16, 20, 32, 64, 128, 256, 512, 1024}

\* byte i of input pattern p
Pattern(p, i) == ((i + 1) * (2 * p + 1) * 37 + p) % 256

\* a byte slice / array of n bytes of pattern p
PatternSlice(p, n) == [k \in 1..n |-> Pattern(p, k - 1)]

Min(a, b) == IF a < b THEN a ELSE b

----------------------------------------------------------------------------
(* Value *)

ZeroBytes == [i \in 0..(Cap - 1) |-> 0]

\* impl Default for Value
Default == [len |-> 0, bytes |-> ZeroBytes]

\* &bytes[lo..hi] as a sequence; the caller has checked lo <= hi <= Cap
Slice(bytes, lo, hi) == [k \in 1..(hi - lo) |-> bytes[lo + k - 1]]

\* bytes[0..n].copy_from_slice(s) on a zeroed buffer, Len(s) = n <= Cap
CopyIntoZeroed(s) == [i \in 0..(Cap - 1) |-> IF i < Len(s) THEN s[i + 1] ELSE 0]

\* Value::zero: no check of len against the buffer
zero(len) == [len |-> len, bytes |-> ZeroBytes]

\* Value::with: bytes[0..len] panics when len > 1024
withPanics(slice) == Len(slice) > Cap

with(slice) == [len |-> Len(slice), bytes |-> CopyIntoZeroed(slice)]

\* bytes[len..] is a valid range only for len <= 1024
TailRangeOk(len) == len <= Cap

\* Value::to_clean: copy.bytes[len..].fill(0), for TailRangeOk(v.len)
to_clean(v) ==
    [v EXCEPT !.bytes = [i \in 0..(Cap - 1) |-> IF i >= v.len THEN 0 ELSE v.bytes[i]]]

\* From<[u8; $len]> for Value
from_array(arr) == [len |-> Len(arr), bytes |-> CopyIntoZeroed(arr)]

----------------------------------------------------------------------------
(* Text: hexadecimal (amplify_num::hex as called from value.rs) *)

HexDigits == <<"0", "1", "2", "3", "4", "5", "6", "7",
               "8", "9", "a", "b", "c", "d", "e", "f">>

UpperHexDigits == <<"A", "B", "C", "D", "E", "F">>

\* char::to_digit(16): 0..15, or -1 for a character that is no hex digit
HexVal(c) ==
    IF \E d \in 1..16 : HexDigits[d] = c
    THEN (CHOOSE d \in 1..16 : HexDigits[d] = c) - 1
    ELSE IF \E d \in 1..6 : UpperHexDigits[d] = c
         THEN (CHOOSE d \in 1..6 : UpperHexDigits[d] = c) + 9
         ELSE -1

\* ToHex for [u8]: two lowercase digits per byte, high nibble first
to_hex_slice(s) ==
    [k \in 1..(2 * Len(s)) |->
        IF k % 2 = 1 THEN HexDigits[(s[(k + 1) \div 2] \div 16) + 1]
                     ELSE HexDigits[(s[k \div 2] % 16) + 1]]

\* Vec::<u8>::from_hex: odd length is refused first, then a bad character
hex_decode(s) ==
    IF Len(s) % 2 # 0 THEN [ok |-> FALSE, bytes |-> <<>>]
    ELSE IF \E k \in 1..Len(s) : HexVal(s[k]) < 0 THEN [ok |-> FALSE, bytes |-> <<>>]
    ELSE [ok |-> TRUE,
          bytes |-> [k \in 1..(Len(s) \div 2) |->
                        16 * HexVal(s[2 * k - 1]) + HexVal(s[2 * k])]]

StartsWith0x(s) == Len(s) >= 2 /\ s[1] = "0" /\ s[2] = "x"

\* str::trim_start_matches("0x"): every leading repetition of the prefix goes
RECURSIVE trim_start_0x(_)
trim_start_0x(s) ==
    IF StartsWith0x(s) THEN trim_start_0x(SubSeq(s, 3, Len(s))) ELSE s

\* Value::from_hex
from_hex(text) ==
    LET s == trim_start_0x(text)
        len == Len(s) \div 2
    IN  IF len > Cap THEN [ok |-> FALSE, value |-> Default]
        ELSE LET hex == hex_decode(s) IN
             IF ~hex.ok THEN [ok |-> FALSE, value |-> Default]
             ELSE [ok |-> TRUE,
                   value |-> [len |-> Len(hex.bytes),
                              bytes |-> CopyIntoZeroed(hex.bytes)]]

\* the tail range of the abbreviated form: &self.bytes[(len - 4)..]
DisplayTail(v) == Slice(v.bytes, v.len - 4, Cap)

\* impl Display for Value (feature std); alt is f.alternate()
DisplayPanics(v, alt) ==
    IF alt /\ v.len > 4 THEN v.len - 4 > Cap ELSE v.len > Cap

\* the whole buffer rendered, as Value::to_hex does
DisplayWholeBuffer(v, alt) ==
    <<"0", "x">> \o
    (IF alt /\ v.len > 4
     THEN to_hex_slice(Slice(v.bytes, 0, 4)) \o <<".", ".">> \o to_hex_slice(DisplayTail(v))
     ELSE to_hex_slice(Slice(v.bytes, 0, Cap)))

Display(v, alt) ==
    <<"0", "x">> \o
    (IF alt /\ v.len > 4
     THEN to_hex_slice(Slice(v.bytes, 0, 4)) \o <<".", ".">> \o to_hex_slice(DisplayTail(v))
     ELSE to_hex_slice(Slice(v.bytes, 0, v.len)))

----------------------------------------------------------------------------
(* Native integers.  A native integer of W bytes is held as its W-byte     *)
(* little-endian two's-complement image; its number is computed from the   *)
(* image wherever it has at most three significant bytes (TLC's integers   *)
(* are 32 bits wide).                                                      *)

Unsigned == {"u8", "u16", "u32", "u64", "u128", "u256", "u512", "u1024"}
Signed == {"i8", "i16", "i32", "i64", "i128"}
NativeTypes == Unsigned \cup Signed

\* impl_value_ty_conv!($ty, $len)
TyWidth(ty) ==
    CASE ty \in {"u8", "i8"} -> 1
      [] ty \in {"u16", "i16"} -> 2
      [] ty \in {"u32", "i32"} -> 4
      [] ty \in {"u64", "i64"} -> 8
      [] ty \in {"u128", "i128"} -> 16
      [] ty = "u256" -> 32
      [] ty = "u512" -> 64
      [] ty = "u1024" -> 128

\* 256^k for the byte positions whose weight a 32-bit integer holds
Pow256(k) == CASE k = 0 -> 1 [] k = 1 -> 256 [] k = 2 -> 65536 [] k = 3 -> 16777216

\* $ty::to_le_bytes: byte k (from 1) is floor(x / 256^(k-1)) mod 256 of the
\* two's-complement number; for |x| < 2^31 the quotient is 0 or -1 from k = 5 on
to_le_bytes(x, W) ==
    [k \in 1..W |->
        (IF k <= 4 THEN x \div Pow256(k - 1) ELSE (IF x < 0 THEN -1 ELSE 0)) % 256]

\* the number of an image is small enough to be computed: every byte above
\* the third is the sign extension
Fits(ty, le) ==
    \/ \A k \in 1..Len(le) : k > 3 => le[k] = 0
    \/ ty \in Signed /\ \A k \in 1..Len(le) : k > 3 => le[k] = 255

\* the number of an image that Fits: byte k weighs 256^(k-1), and a signed
\* image whose top bit is set counts 2^(8W) less
LeValue(ty, le) ==
    LET n == Min(Len(le), 3)
        low == IF n = 1 THEN le[1]
               ELSE IF n = 2 THEN le[1] + 256 * le[2]
               ELSE le[1] + 256 * le[2] + 65536 * le[3]
    IN  IF ty \in Signed /\ le[Len(le)] >= 128 THEN low - Pow256(n) ELSE low

\* the image read most significant byte first
from_be_bytes(ty, le) == LeValue(ty, [k \in 1..Len(le) |-> le[Len(le) + 1 - k]])

\* $ty::from_le_bytes, as a number
from_le_bytes(ty, le) == LeValue(ty, le)

\* From<&$ty> for Value
from_native(ty, x) ==
    LET le == to_le_bytes(x, TyWidth(ty)) IN
    [len |-> Len(le), bytes |-> CopyIntoZeroed(le)]

\* From<Value> for [u8; $len]: the buffer is zeroed from $len on, not from
\* val.len on, and its first $len bytes are copied out
to_array(v, W) ==
    LET bytes == [i \in 0..(Cap - 1) |-> IF i >= W THEN ZeroBytes[i] ELSE v.bytes[i]]
    IN  Slice(bytes, 0, W)

\* From<Value> for $ty: the image handed to $ty::from_le_bytes
to_native(v, ty) == to_array(v, TyWidth(ty))

----------------------------------------------------------------------------
(* Text: decimal literals (u128::from_str / i128::from_str)                *)

DecDigits == <<"0", "1", "2", "3", "4", "5", "6", "7", "8", "9">>

IsDec(c) == \E d \in 1..10 : DecDigits[d] = c

DecVal(c) == (CHOOSE d \in 1..10 : DecDigits[d] = c) - 1

\* long division of a decimal digit sequence by 256
RECURSIVE LongDiv256(_, _, _, _)
LongDiv256(ds, k, r, q) ==
    IF k > Len(ds) THEN [q |-> q, r |-> r]
    ELSE LET t == r * 10 + ds[k] IN
         LongDiv256(ds, k + 1, t % 256, Append(q, t \div 256))

\* the W low bytes of a decimal magnitude, and whether it exceeds W bytes
RECURSIVE DecToLe(_, _)
DecToLe(ds, W) ==
    IF W = 0 THEN [le |-> <<>>, over |-> \E k \in 1..Len(ds) : ds[k] # 0]
    ELSE LET dm == LongDiv256(ds, 1, 0, <<>>)
             rest == DecToLe(dm.q, W - 1)
         IN  [le |-> <<dm.r>> \o rest.le, over |-> rest.over]

\* two's-complement negation of an image
RECURSIVE Negate(_, _, _)
Negate(le, k, carry) ==
    IF k > Len(le) THEN <<>>
    ELSE LET t == (255 - le[k]) + carry IN
         <<t % 256>> \o Negate(le, k + 1, t \div 256)

\* u128::from_str: an optional "+", then one or more digits, no overflow
parse_u128(s) ==
    LET body == IF Len(s) >= 1 /\ s[1] = "+" THEN SubSeq(s, 2, Len(s)) ELSE s IN
    IF Len(body) = 0 \/ \E k \in 1..Len(body) : ~IsDec(body[k])
    THEN [ok |-> FALSE, le |-> <<>>]
    ELSE LET m == DecToLe([k \in 1..Len(body) |-> DecVal(body[k])], 16) IN
         IF m.over THEN [ok |-> FALSE, le |-> <<>>] ELSE [ok |-> TRUE, le |-> m.le]

\* i128::from_str of a text starting with "-"
parse_i128_neg(s) ==
    LET body == SubSeq(s, 2, Len(s)) IN
    IF Len(body) = 0 \/ \E k \in 1..Len(body) : ~IsDec(body[k])
    THEN [ok |-> FALSE, le |-> <<>>]
    ELSE LET m == DecToLe([k \in 1..Len(body) |-> DecVal(body[k])], 16)
             big == m.le[16] > 128 \/ (m.le[16] = 128 /\ \E k \in 1..15 : m.le[k] # 0)
         IN  IF m.over \/ big THEN [ok |-> FALSE, le |-> <<>>]
             ELSE [ok |-> TRUE, le |-> Negate(m.le, 1, 1)]

\* the arm of `match val` in from_str: the width of the narrowest range holding val
MatchWidth(le) ==
    IF \A k \in 2..16 : le[k] = 0 THEN 1
    ELSE IF \A k \in 3..16 : le[k] = 0 THEN 2
    ELSE IF \A k \in 5..16 : le[k] = 0 THEN 4
    ELSE IF \A k \in 9..16 : le[k] = 0 THEN 8
    ELSE 16

\* `val as uN` then Value::from: the low bytes of val, as a value of that width
from_le_image(le) == [len |-> Len(le), bytes |-> CopyIntoZeroed(le)]

\* impl FromStr for Value: [status, value]
from_str(s) ==
    IF StartsWith0x(s)
    THEN LET r == from_hex(s) IN
         [status |-> IF r.ok THEN "ok" ELSE "err_hex", value |-> r.value]
    ELSE IF Len(s) >= 1 /\ s[1] = "-"
    THEN LET r == parse_i128_neg(s) IN
         IF r.ok THEN [status |-> "ok", value |-> from_le_image(r.le)]
                 ELSE [status |-> "err_int", value |-> Default]
    ELSE LET r == parse_u128(s) IN
         IF r.ok
         THEN [status |-> "ok",
               value |-> from_le_image(SubSeq(r.le, 1, MatchWidth(r.le)))]
         ELSE [status |-> "err_int", value |-> Default]

----------------------------------------------------------------------------
(* Outcome records *)

NoOut ==
    [op |-> "none", status |-> "ok", alt |-> FALSE, w |-> 0, ty |-> "",
     arr |-> <<>>, text |-> <<>>, value |-> Default, fits |-> FALSE, num |-> 0]

NoCtor == [op |-> "none", n |-> 0, p |-> 0, ty |-> "", text |-> <<>>, len |-> 0]

EqIdle == [depth |-> 0, a |-> Default, b |-> Default, a0 |-> Default,
           b0 |-> Default, result |-> "none"]

Init ==
    /\ pc = "new"
    /\ val = Default
    /\ ctor = NoCtor
    /\ direct = FALSE
    /\ nwrites = 0
    /\ out = NoOut
    /\ eq = EqIdle

\* a constructor returned v
Constructed(v, c) ==
    /\ pc' = "live"
    /\ val' = v
    /\ ctor' = [c EXCEPT !.len = v.len]
    /\ direct' = FALSE
    /\ nwrites' = 0
    /\ out' = NoOut
    /\ eq' = EqIdle

\* a call ended with outcome o and left val alone
Outcome(o) ==
    /\ pc' = "called"
    /\ out' = o
    /\ UNCHANGED <<val, ctor, direct, nwrites, eq>>

----------------------------------------------------------------------------
(* Constructors.  What a constructor returns does not depend on the state  *)
(* it is called in, so constructors are taken from the start only: every   *)
(* value they can yield anywhere is reached.                               *)

ZeroLens == {2, 5, Cap, Cap + 1}

Zero ==
    /\ pc = "new"
    /\ \E n \in ZeroLens :
         Constructed(zero(n), [NoCtor EXCEPT !.op = "zero", !.n = n])

WithLens == {0, 7, Cap, Cap + 1}

With ==
    /\ pc = "new"
    /\ \E n \in WithLens, p \in 1..MaxPattern :
         LET slice == PatternSlice(p, n) IN
         IF withPanics(slice)
         THEN Outcome([NoOut EXCEPT !.op = "with", !.status = "panic", !.w = n])
         ELSE Constructed(with(slice),
                          [NoCtor EXCEPT !.op = "with", !.n = n, !.p = p])

FromArray ==
    /\ pc = "new"
    /\ \E W \in Widths, p \in 1..MaxPattern :
         Constructed(from_array(PatternSlice(p, W)),
                     [NoCtor EXCEPT !.op = "from_array", !.n = W, !.p = p])

\* a text of 2n hex digits after the prefix
LongHex(n, c) == <<"0", "x">> \o [k \in 1..(2 * n) |-> c]

\* texts handed to Value::from_hex
HexTexts ==
    {<<"0", "x", "a", "f", "6", "7", "9", "3", "7", "b", "5", "4", "9", "8", "d", "c">>,
     <<"0", "x", "0", "x", "F", "f">>,
     <<"0", "x">>,
     <<"0", "x", "a", "b", "c">>,
     <<"0", "x", "z", "z">>,
     LongHex(Cap, "f"),
     LongHex(Cap + 1, "a")}

FromHex ==
    /\ pc = "new"
    /\ \E t \in HexTexts :
         LET r == from_hex(t) IN
         IF r.ok
         THEN Constructed(r.value, [NoCtor EXCEPT !.op = "from_hex", !.text = t])
         ELSE Outcome([NoOut EXCEPT !.op = "from_hex", !.status = "err_hex", !.text = t])

\* tokens handed to Value::from_str
StrTexts ==
    {<<"3", "7", "8">>,
     <<"-", "5">>,
     <<"6", "5", "5", "3", "6">>,
     <<"4", "2", "9", "4", "9", "6", "7", "2", "9", "6">>,
     <<"1", "8", "4", "4", "6", "7", "4", "4", "0", "7", "3", "7", "0", "9", "5", "5", "1", "6", "1", "6">>,
     <<"3", "4", "0", "2", "8", "2", "3", "6", "6", "9", "2", "0", "9", "3", "8", "4", "6", "3", "4", "6", "3", "3", "7", "4", "6", "0", "7", "4", "3", "1", "7", "6", "8", "2", "1", "1", "4", "5", "6">>,
     <<"-", "1", "7", "0", "1", "4", "1", "1", "8", "3", "4", "6", "0", "4", "6", "9", "2", "3", "1", "7", "3", "1", "6", "8", "7", "3", "0", "3", "7", "1", "5", "8", "8", "4", "1", "0", "5", "7", "2", "9">>,
     <<"f", "o", "o">>,
     <<>>,
     <<"-">>,
     <<"1", "2", "a">>,
     <<"-", "x", "1">>,
     <<"0", "X", "f", "f">>,
     <<"0", "x", "a", "f", "6", "7">>,
     <<"0", "x", "a", "b", "c">>,
     <<"0", "x", "z", "z">>,
     LongHex(Cap + 1, "a")}

FromStr ==
    /\ pc = "new"
    /\ \E t \in StrTexts :
         LET r == from_str(t) IN
         IF r.status = "ok"
         THEN Constructed(r.value, [NoCtor EXCEPT !.op = "from_str", !.text = t])
         ELSE Outcome([NoOut EXCEPT !.op = "from_str", !.status = r.status, !.text = t])

\* numbers of native type ty handed to Value::from
NativeSamples(ty) ==
    IF ty \in Signed
    THEN {-1, 7} \cup (IF ty = "i64" THEN {1} ELSE {})
    ELSE IF ty = "u8" THEN {255} ELSE {378}

FromNative ==
    /\ pc = "new"
    /\ \E ty \in NativeTypes :
         \E x \in NativeSamples(ty) :
            Constructed(from_native(ty, x),
                        [NoCtor EXCEPT !.op = "from_native", !.ty = ty, !.n = x])

----------------------------------------------------------------------------
(* In-place writes *)

Written(v) ==
    /\ nwrites < MaxWrites
    /\ pc' = "live"
    /\ val' = v
    /\ nwrites' = nwrites + 1
    /\ UNCHANGED <<ctor, out, eq>>

\* IndexMut<u16>: assert!(index < self.len); &mut self.bytes[index as usize]
\* the bound checked as index <= self.len
IndexMutPanicsOffByOne(v, index) == ~(index <= v.len) \/ index >= Cap

IndexMutPanics(v, index) == ~(index < v.len) \/ index >= Cap

IndexMutWrite ==
    /\ pc = "live"
    /\ \E index \in {0, val.len, Cap}, b \in {122} :
         IF IndexMutPanics(val, index)
         THEN Outcome([NoOut EXCEPT !.op = "index_mut", !.status = "panic", !.w = index])
         ELSE /\ Written([val EXCEPT !.bytes[index] = b])
              /\ UNCHANGED direct

\* AsMut<[u8]>: &mut self.bytes[..self.len]; then a write at offset i of the slice
AsMutPanics(v, i) == v.len > Cap \/ i >= v.len

AsMutWrite ==
    /\ pc = "live"
    /\ \E i \in {val.len - 1, val.len} \cap Nat, b \in {255} :
         IF AsMutPanics(val, i)
         THEN Outcome([NoOut EXCEPT !.op = "as_mut", !.status = "panic", !.w = i])
         ELSE /\ Written([val EXCEPT !.bytes[i] = b])
              /\ UNCHANGED direct

\* Value::clean: self.bytes[self.len..].fill(0)
clean(v) ==
    [v EXCEPT !.bytes = [i \in 0..(Cap - 1) |-> IF i >= v.len THEN 0 ELSE v.bytes[i]]]

Clean ==
    /\ pc = "live"
    /\ IF ~TailRangeOk(val.len)
       THEN Outcome([NoOut EXCEPT !.op = "clean", !.status = "panic"])
       ELSE /\ Written(clean(val))
            /\ UNCHANGED direct

\* pub bytes: value.bytes[i] = b written by a caller
SetBytesField ==
    /\ pc = "live"
    /\ \E i \in {val.len} \cap 0..(Cap - 1), b \in {255} :
         /\ Written([val EXCEPT !.bytes[i] = b])
         /\ direct' = TRUE

\* pub len: value.len = n written by a caller
SetLenField ==
    /\ pc = "live"
    /\ \E n \in {1} :
         /\ Written([val EXCEPT !.len = n])
         /\ direct' = TRUE

----------------------------------------------------------------------------
(* Read-only calls on val.  Each takes val by reference or by copy and     *)
(* leaves its outcome in `out`; the outcome depends on val and the         *)
(* arguments only.                                                         *)

\* impl Hash for Value: write_u16(clean.len), write(&clean.bytes)
HashPanics(v) == ~TailRangeOk(v.len)

\* the hasher fed the buffer as it is, without cleaning
HashFeedRaw(v) == [len |-> v.len, bytes |-> Slice(v.bytes, 0, Cap)]

HashFeed(v) ==
    LET cleaned == to_clean(v) IN
    [len |-> cleaned.len, bytes |-> Slice(cleaned.bytes, 0, Cap)]

Hash ==
    /\ pc = "live"
    /\ IF HashPanics(val)
       THEN Outcome([NoOut EXCEPT !.op = "hash", !.status = "panic"])
       ELSE Outcome([NoOut EXCEPT !.op = "hash", !.w = HashFeed(val).len,
                                  !.arr = HashFeed(val).bytes])

\* <[u8; W]>::from(val)
ToArray ==
    /\ pc = "live"
    /\ \E W \in Widths :
         Outcome([NoOut EXCEPT !.op = "to_array", !.w = W, !.arr = to_array(val, W)])

\* $ty::from(val)
ToNative ==
    /\ pc = "live"
    /\ \E ty \in NativeTypes :
         LET le == to_native(val, ty) IN
         Outcome([NoOut EXCEPT !.op = "to_native", !.ty = ty, !.w = TyWidth(ty),
                               !.arr = le, !.fits = Fits(ty, le),
                               !.num = IF Fits(ty, le) THEN from_le_bytes(ty, le) ELSE 0])

\* format!("{}", val) / format!("{:#}", val)
DisplayCall ==
    /\ pc = "live"
    /\ \E alt \in BOOLEAN :
         IF DisplayPanics(val, alt)
         THEN Outcome([NoOut EXCEPT !.op = "display", !.status = "panic", !.alt = alt,
                                    !.text = <<"0", "x">>])
         ELSE Outcome([NoOut EXCEPT !.op = "display", !.alt = alt,
                                    !.text = Display(val, alt)])

\* Value::from_hex(&format!("{}", val)): the canonical text parsed back
Reparse ==
    /\ pc = "called"
    /\ out.op = "display" /\ out.status = "ok" /\ ~out.alt
    /\ LET r == from_hex(out.text) IN
       Outcome([NoOut EXCEPT !.op = "reparse",
                             !.status = IF r.ok THEN "ok" ELSE "err_hex",
                             !.text = out.text, !.value = r.value])

\* impl Display for Step: the arm of `match val` for the i64 image x
\* the match taken on the unsigned reading of the image
StepMnemonicUnsigned(x) ==
    IF x = to_le_bytes(1, 8) THEN <<"i", "n", "c">> ELSE <<"a", "d", "d">>

StepMnemonic(x) ==
    IF x = to_le_bytes(1, 8) THEN <<"i", "n", "c">>
    ELSE IF x = to_le_bytes(-1, 8) THEN <<"d", "e", "c">>
    ELSE IF x[8] >= 128 THEN <<"s", "u", "b">>
    ELSE <<"a", "d", "d">>

StepDisplayPanics(v, alt) == ~alt /\ DisplayPanics(v, FALSE)

StepDisplay(v, alt) ==
    IF alt THEN StepMnemonic(to_native(v, "i64"))
    ELSE <<",">> \o Display(v, FALSE)

\* format!("{}", Step(val)) / format!("{:#}", Step(val))
StepDisplayCall ==
    /\ pc = "live"
    /\ \E alt \in BOOLEAN :
         IF StepDisplayPanics(val, alt)
         THEN Outcome([NoOut EXCEPT !.op = "step_display", !.status = "panic",
                                    !.alt = alt, !.text = <<",", "0", "x">>])
         ELSE Outcome([NoOut EXCEPT !.op = "step_display", !.alt = alt,
                                    !.text = StepDisplay(val, alt)])

----------------------------------------------------------------------------
(* Equality: impl PartialEq for Value                                      *)
(*     fn eq(&self, other) -> bool { self.to_clean().eq(&other.to_clean()) } *)
(* The receiver of the inner .eq is a Value, so the call resolves to this  *)
(* same function: every frame cleans its operands and calls eq again.      *)

\* the values val is compared with: a copy whose last buffer byte is
\* overwritten (past len unless len = 1024), and the zero value of its length
EqOthers(v) == {[v EXCEPT !.bytes[Cap - 1] = 170], zero(v.len)}

EqCall ==
    /\ pc = "live"
    /\ \E other \in EqOthers(val) :
         /\ pc' = "eq"
         /\ eq' = [depth |-> 1, a |-> val, b |-> other, a0 |-> val, b0 |-> other,
                   result |-> "running"]
         /\ UNCHANGED <<val, ctor, direct, nwrites, out>>

\* the body of the frame on top: to_clean of both operands panics on a len
\* past the buffer; otherwise eq is called on the cleaned copies, in a new
\* frame or, where the build turns the call into a jump, in the same one
EqStep ==
    /\ pc = "eq"
    /\ IF ~TailRangeOk(eq.a.len) \/ ~TailRangeOk(eq.b.len)
       THEN /\ pc' = "called"
            /\ eq' = [eq EXCEPT !.result = "panic"]
            /\ out' = [NoOut EXCEPT !.op = "eq", !.status = "panic"]
       ELSE \E jump \in BOOLEAN :
            /\ out' = out
            /\ IF jump
               THEN /\ pc' = "eq"
                    /\ eq' = [eq EXCEPT !.a = to_clean(eq.a), !.b = to_clean(eq.b)]
               ELSE IF eq.depth < StackFrames
               THEN /\ pc' = "eq"
                    /\ eq' = [eq EXCEPT !.a = to_clean(eq.a), !.b = to_clean(eq.b),
                                        !.depth = eq.depth + 1]
               ELSE /\ pc' = "aborted"
                    /\ eq' = [eq EXCEPT !.result = "stack overflow"]
    /\ UNCHANGED <<val, ctor, direct, nwrites>>

\* the caller drops the outcome of the last call
Return ==
    /\ pc = "called"
    /\ pc' = IF ctor.op = "none" THEN "new" ELSE "live"
    /\ out' = NoOut
    /\ eq' = EqIdle
    /\ UNCHANGED <<val, ctor, direct, nwrites>>

Next ==
    \/ Zero
    \/ With
    \/ FromArray
    \/ FromHex
    \/ FromStr
    \/ FromNative
    \/ IndexMutWrite
    \/ AsMutWrite
    \/ Clean
    \/ SetBytesField
    \/ SetLenField
    \/ Hash
    \/ ToArray
    \/ ToNative
    \/ DisplayCall
    \/ Reparse
    \/ StepDisplayCall
    \/ EqCall
    \/ EqStep
    \/ Return

Spec == Init /\ [][Next]_vars

----------------------------------------------------------------------------
(* Properties *)

\* byte i of the cleaned form of v
CleanByte(v, i) == IF i < v.len THEN v.bytes[i] ELSE 0

\* v holds a non-zero byte at an offset >= len
Dirty(v) == \E i \in 0..(Cap - 1) : i >= v.len /\ v.bytes[i] # 0

\* the cleaned forms of a and b are bitwise identical
CleanIdentical(a, b) ==
    /\ a.len = b.len
    /\ \A i \in 0..(Cap - 1) : CleanByte(a, i) = CleanByte(b, i)

\* copies of v whose bytes at offsets >= len are overwritten
Scribbles(v) ==
    {[v EXCEPT !.bytes = [i \in 0..(Cap - 1) |-> IF i >= v.len THEN d ELSE v.bytes[i]]] :
        d \in {0, 90, 255}}

\* C1: a == b returns a boolean, true exactly when the cleaned forms of a and
\* b (len in 0..=1024) are bitwise identical: every equality call that has
\* ended ended by returning that boolean.
C1_EqReturnsCleanEquality ==
    (eq.result \notin {"none", "running"} /\ eq.a0.len <= Cap /\ eq.b0.len <= Cap)
        => eq.result = (IF CleanIdentical(eq.a0, eq.b0) THEN "true" ELSE "false")

\* C2: hashing feeds the hasher the len and the buffer with every byte at an
\* offset >= len replaced by zero, and nothing else (nothing at all for a len
\* past the buffer, where cleaning panics); values of the same len and the
\* same bytes[0..len] feed the same sequence whatever lies past len; hashing
\* leaves the value as it was.
C2_HashFed ==
    out.op = "hash" =>
        /\ out.status = "panic" <=> val.len > Cap
        /\ out.status = "panic" => out.arr = <<>>
        /\ out.status = "ok" =>
              /\ out.w = val.len
              /\ Len(out.arr) = Cap
              /\ \A i \in 0..(Cap - 1) : out.arr[i + 1] = CleanByte(val, i)
              /\ \A w \in Scribbles(val) :
                    HashFeed(w) = [len |-> out.w, bytes |-> out.arr]

C2_HashFeedsCleanedForm ==
    /\ []C2_HashFed
    /\ [][out'.op = "hash" => val' = val]_vars

C2_Witness == out.op = "hash" /\ out.status = "ok" /\ Dirty(val) /\ val.len >= 1

\* C3: invariant I1, len <= 1024, for every Value that zero, with, from_hex,
\* the array and native conversions, indexed writes and clean() produce;
\* zero(length) with length > 1024 returns no Value.
C3_LenWithinCapacity ==
    /\ ~direct => val.len <= Cap
    /\ ~(ctor.op = "zero" /\ ctor.n > Cap)

\* C4: the W-byte array of a Value is the first W bytes of its cleaned form:
\* byte i is bytes[i] for i < len and 0 for i >= len, whatever lies past len.
C4_ToArrayTakesCleanedBytes ==
    out.op = "to_array" =>
        /\ out.status = "ok"
        /\ Len(out.arr) = out.w
        /\ \A i \in 0..(out.w - 1) : out.arr[i + 1] = CleanByte(val, i)

\* C5: Value::from(x) of a native x of type T has len = T's width and holds
\* the little-endian two's-complement bytes of x, zero elsewhere, and
\* T::from(Value::from(x)) = x, sign included.
C5_NativeRoundTrip ==
    (ctor.op = "from_native" /\ nwrites = 0) =>
        /\ val.len = TyWidth(ctor.ty)
        /\ \A i \in 0..(Cap - 1) :
              val.bytes[i] =
                 (IF i >= val.len THEN 0
                  ELSE IF i = 0 THEN ctor.n % 256
                  ELSE IF i = 1 THEN (ctor.n \div 256) % 256
                  ELSE IF i = 2 THEN (ctor.n \div 65536) % 256
                  ELSE IF i = 3 THEN (ctor.n \div 16777216) % 256
                  ELSE IF ctor.n < 0 THEN 255 ELSE 0)
        /\ (out.op = "to_native" /\ out.ty = ctor.ty) =>
              out.status = "ok" /\ out.fits /\ out.num = ctor.n

C5_Witness ==
    /\ ctor.op = "from_native" /\ nwrites = 0 /\ ctor.ty = "i64" /\ ctor.n = -1
    /\ out.op = "to_native" /\ out.ty = "i64" /\ out.num = -1

\* the canonical text of v: "0x" and the lowercase hex of bytes[0..len] only
CanonicalText(t, v) ==
    /\ Len(t) = 2 + 2 * v.len
    /\ t[1] = "0" /\ t[2] = "x"
    /\ \A i \in 0..(v.len - 1) :
          /\ t[2 * i + 3] = HexDigits[(v.bytes[i] \div 16) + 1]
          /\ t[2 * i + 4] = HexDigits[(v.bytes[i] % 16) + 1]

\* C6: for a byte sequence b of 0..=1024 bytes, the Display text of with(b)
\* is the canonical text, and from_hex of it succeeds with len = length of b,
\* bytes[0..len] = b and zero past len: the value with(b) itself.
C6_HexRoundTrip ==
    /\ (out.op = "display" /\ ~out.alt /\ val.len <= Cap) =>
          out.status = "ok" /\ CanonicalText(out.text, val)
    /\ out.op = "reparse" =>
          /\ out.status = "ok"
          /\ CanonicalText(out.text, val)
          /\ out.value.len = val.len
          /\ \A i \in 0..(Cap - 1) : out.value.bytes[i] = CleanByte(val, i)
          /\ (ctor.op = "with" /\ nwrites = 0) =>
                /\ out.value = val
                /\ val.len = ctor.n
                /\ \A i \in 0..(ctor.n - 1) : out.value.bytes[i] = Pattern(ctor.p, i)

C6_Witness ==
    /\ out.op = "reparse" /\ out.status = "ok"
    /\ ctor.op = "with" /\ ctor.n = Cap /\ nwrites = 0
    /\ out.value = val /\ val.bytes[Cap - 1] # 0

\* the literal form of a token: 0x-prefixed, decimal (a digit, or "-" and a
\* digit, first), or none of them
IsHexToken(t) == StartsWith0x(t)

IsDecToken(t) ==
    \/ Len(t) >= 1 /\ IsDec(t[1])
    \/ Len(t) >= 2 /\ t[1] = "-" /\ IsDec(t[2])

\* C7: a failed parse reports malformed-hex for a 0x token, malformed-decimal
\* for a decimal token, and unknown-literal for a token of neither form.
C7_UnknownLiteralReported ==
    (out.op = "from_str" /\ out.status # "ok") =>
        out.status = (IF IsHexToken(out.text) THEN "err_hex"
                      ELSE IF IsDecToken(out.text) THEN "err_int"
                      ELSE "err_unknown")

\* C8: for len in 0..=1024 Display emits "0x" and, in alternate rendering of
\* a len > 4, the hex of bytes[0..4], "..", and the hex of bytes[len-4..len]
\* (8 digits on each side); otherwise the hex of bytes[0..len].
C8_AlternateShowsLastFourBytes ==
    (out.op = "display" /\ val.len <= Cap) =>
        /\ out.status = "ok"
        /\ out.text =
             <<"0", "x">> \o
             (IF out.alt /\ val.len > 4
              THEN to_hex_slice(Slice(val.bytes, 0, 4)) \o <<".", ".">>
                      \o to_hex_slice(Slice(val.bytes, val.len - 4, val.len))
              ELSE to_hex_slice(Slice(val.bytes, 0, val.len)))

\* the i64 read from the low 8 bytes of the buffer is 1, is -1, is negative
LowIsOne(v) == v.bytes[0] = 1 /\ \A i \in 1..7 : v.bytes[i] = 0
LowIsMinusOne(v) == \A i \in 0..7 : v.bytes[i] = 255
LowIsNegative(v) == v.bytes[7] >= 128

\* C9: the mnemonic display of a Step never fails and is "inc" for x = 1,
\* "dec" for x = -1, "sub" for any other x < 0, "add" for any other x >= 0,
\* x the signed 64-bit little-endian reading of the value's low 8 bytes; the
\* 64-bit values 1, -1, 7 render inc, dec, add; displaying leaves the value
\* as it was.
C9_Mnemonic ==
    (out.op = "step_display" /\ out.alt) =>
        /\ out.status = "ok"
        /\ out.text = <<"i", "n", "c">> <=> LowIsOne(val)
        /\ out.text = <<"d", "e", "c">> <=> LowIsMinusOne(val)
        /\ out.text = <<"s", "u", "b">> <=> (LowIsNegative(val) /\ ~LowIsMinusOne(val))
        /\ out.text = <<"a", "d", "d">> <=> (~LowIsNegative(val) /\ ~LowIsOne(val))
        /\ (ctor.op = "from_native" /\ ctor.ty \in {"i64", "u64"} /\ nwrites = 0) =>
              /\ ctor.n = 1 => out.text = <<"i", "n", "c">>
              /\ ctor.n = -1 => out.text = <<"d", "e", "c">>
              /\ ctor.n = 7 => out.text = <<"a", "d", "d">>

C9_StepMnemonic ==
    /\ []C9_Mnemonic
    /\ [][out'.op = "step_display" => val' = val]_vars

C9_Witness ==
    /\ out.op = "step_display" /\ out.alt /\ out.text = <<"d", "e", "c">>
    /\ ctor.op = "from_native" /\ ctor.ty = "i64" /\ ctor.n = -1

\* C10: after a constructor and any indexed writes, writes through as_mut
\* and clean(), with no direct assignment to len or bytes, every byte at an
\* offset >= len is zero and len is the len at construction.
C10_NoDirtyBytesWithoutDirectWrites ==
    ~direct =>
        /\ \A i \in 0..(Cap - 1) : i >= val.len => val.bytes[i] = 0
        /\ val.len = ctor.len

C10_Witness ==
    /\ ~direct /\ nwrites >= 1 /\ ctor.op = "from_array"
    /\ val.bytes[val.len - 1] = 255 /\ ~Dirty(val)

====
